---- MODULE Spec2Model ----
(***************************************************************************)
(* Model of src/app.py: the MarketScanner class (quote retrieval, news     *)
(* aggregation, keyword sentiment, composite score, recommendation) and    *)
(* the scan loop of main().                                                *)
(*                                                                         *)
(* Units.  Dollar amounts the provider reports are integers in thousandths *)
(* of a dollar; the 'Price' of a quote (round(price, 2)) is an integer in  *)
(* cents.  'Change %' (round(daily_change, 2)) is an integer in hundredths *)
(* of a percent, so the thresholds 5, 2 and 0 of calculate_score are 500,  *)
(* 200 and 0.  Text is a sequence of one-character strings.                *)
(***************************************************************************)
EXTENDS Integers, Sequences, FiniteSets, TLC

VARIABLES
    pc,             \* position of the script run / of the direct call
    scan_mode,      \* sidebar radio: "fast" or "full"
    min_price,      \* sidebar slider (cents)
    min_volume,     \* sidebar number input
    tickers,        \* the ticker list selected for this scan
    i,              \* loop index of `for i, ticker in enumerate(tickers)` (1-based)
    stock_data,     \* local of the loop: result of get_stock_data
    results,        \* local list `results`
    session_results,\* st.session_state.results
    fetch_count,    \* history: number of get_stock_data calls per ticker
    enriched,       \* history: tickers whose news/sentiment/score step has run
    passed,         \* history: tickers that resolved a quote and passed the filters
    news_failed,    \* history: tickers whose feed raised inside get_stock_news
    fn,             \* direct call: name of the method called
    arg,            \* direct call: its argument
    ret             \* direct call: its return value

vars == <<pc, scan_mode, min_price, min_volume, tickers, i, stock_data, results,
          session_results, fetch_count, enriched, passed, news_failed, fn, arg, ret>>

(***************************************************************************)
(* Bounds of the model.                                                    *)
(***************************************************************************)
NumTickers == 3     \* length of the ticker universe kept from focus_tickers
FastCount == 2      \* length of the "fast" slice (30 of 88 in the program)
MaxItems == 2       \* longest news list handed to analyze_sentiment directly
MaxEntries == 4     \* longest feed handed to get_stock_news directly

(***************************************************************************)
(* Program constants.                                                      *)
(***************************************************************************)
SummaryMax == 150   \* entry.get('summary', '')[:150]
NewsCap == 3        \* feed.entries[:3], news_items[:3]

Min(a, b) == IF a < b THEN a ELSE b
Max(a, b) == IF a > b THEN a ELSE b
Abs(x) == IF x < 0 THEN -x ELSE x

\* Python's None.
None == [none |-> TRUE]

(***************************************************************************)
(* Text.                                                                   *)
(***************************************************************************)
UpperCase == <<"A","B","C","D","E","F","G","H","I","J","K","L","M",
               "N","O","P","Q","R","S","T","U","V","W","X","Y","Z">>
LowerCase == <<"a","b","c","d","e","f","g","h","i","j","k","l","m",
               "n","o","p","q","r","s","t","u","v","w","x","y","z">>

\* str.lower() on one character, then on a text.
LowerChar(c) ==
    IF \E k \in 1..Len(UpperCase) : UpperCase[k] = c
    THEN LowerCase[CHOOSE k \in 1..Len(UpperCase) : UpperCase[k] = c]
    ELSE c

lower(text) == [k \in 1..Len(text) |-> LowerChar(text[k])]

\* Python's `word in text` on strings: word occurs as a contiguous substring.
Contains(text, word) ==
    \E k \in 0..(Len(text) - Len(word)) :
        \A j \in 1..Len(word) : text[k + j] = word[j]

\* s[:n]
Prefix(s, n) == SubSeq(s, 1, Min(n, Len(s)))

W_profit == <<"p","r","o","f","i","t">>
W_gain == <<"g","a","i","n">>
W_up == <<"u","p">>
W_rise == <<"r","i","s","e">>
W_bullish == <<"b","u","l","l","i","s","h">>
W_buy == <<"b","u","y">>
W_upgrade == <<"u","p","g","r","a","d","e">>
W_loss == <<"l","o","s","s">>
W_down == <<"d","o","w","n">>
W_fall == <<"f","a","l","l">>
W_bearish == <<"b","e","a","r","i","s","h">>
W_sell == <<"s","e","l","l">>
W_downgrade == <<"d","o","w","n","g","r","a","d","e">>

positive_words == <<W_profit, W_gain, W_up, W_rise, W_bullish, W_buy, W_upgrade>>
negative_words == <<W_loss, W_down, W_fall, W_bearish, W_sell, W_downgrade>>

(***************************************************************************)
(* MarketScanner.analyze_sentiment                                         *)
(***************************************************************************)
\* Number of lexicon words that occur in the text (one count per word).
CountWords(words, text) == Cardinality({k \in 1..Len(words) : Contains(text, words[k])})

\* text = f"{news['title']} {news['summary']}".lower()
ItemText(news) == lower(news.title \o <<" ">> \o news.summary)

\* Contribution of one news item to sentiment_score.
ItemScore(news) ==
    CountWords(positive_words, ItemText(news)) - CountWords(negative_words, ItemText(news))

RECURSIVE SentimentScore(_)
SentimentScore(news_items) ==
    IF news_items = <<>> THEN 0
    ELSE SentimentScore(SubSeq(news_items, 1, Len(news_items) - 1))
         + ItemScore(news_items[Len(news_items)])

\* An analyze_sentiment without the early return for an empty list.
analyze_sentiment_noempty(news_items) ==
    LET sentiment_score == SentimentScore(news_items)
    IN  [sentiment |-> IF sentiment_score > 1 THEN "BULLISH"
                       ELSE IF sentiment_score < -1 THEN "BEARISH"
                       ELSE "NEUTRAL",
         score |-> sentiment_score,
         confidence |-> Min(90, 50 + Abs(sentiment_score) * 15)]

analyze_sentiment(news_items) ==
    IF news_items = <<>>
    THEN [sentiment |-> "NEUTRAL", score |-> 0, confidence |-> 0]
    ELSE LET sentiment_score == SentimentScore(news_items)
         IN  [sentiment |-> IF sentiment_score > 1 THEN "BULLISH"
                            ELSE IF sentiment_score < -1 THEN "BEARISH"
                            ELSE "NEUTRAL",
              score |-> sentiment_score,
              confidence |-> Min(90, 50 + Abs(sentiment_score) * 15)]

(***************************************************************************)
(* MarketScanner.calculate_score and get_recommendation                    *)
(***************************************************************************)
\* A calculate_score whose BEARISH adjustment is written `score =- 10` and
\* whose result is returned without the clamp.
calculate_score_unclamped(quote, sentiment_data) ==
    LET change == quote.Change
        s1 == IF change > 500 THEN 70 ELSE IF change > 200 THEN 60
              ELSE IF change > 0 THEN 55 ELSE 50
        s2 == IF sentiment_data.sentiment = "BULLISH" THEN s1 + 15
              ELSE IF sentiment_data.sentiment = "BEARISH" THEN -10
              ELSE s1
    IN  IF quote.Volume > 1000000 THEN s2 + 5 ELSE s2

\* A calculate_score whose BEARISH penalty is 15 instead of 10.
calculate_score_penalty15(quote, sentiment_data) ==
    LET change == quote.Change
        s1 == IF change > 500 THEN 70 ELSE IF change > 200 THEN 60
              ELSE IF change > 0 THEN 55 ELSE 50
        s2 == IF sentiment_data.sentiment = "BULLISH" THEN s1 + 15
              ELSE IF sentiment_data.sentiment = "BEARISH" THEN s1 - 15
              ELSE s1
        s3 == IF quote.Volume > 1000000 THEN s2 + 5 ELSE s2
    IN  Max(0, Min(100, s3))

calculate_score(quote, sentiment_data) ==
    LET s0 == 50
        change == quote.Change
        s1 == IF change > 500 THEN s0 + 20
              ELSE IF change > 200 THEN s0 + 10
              ELSE IF change > 0 THEN s0 + 5
              ELSE s0
        sentiment == sentiment_data.sentiment
        s2 == IF sentiment = "BULLISH" THEN s1 + 15
              ELSE IF sentiment = "BEARISH" THEN s1 - 10
              ELSE s1
        s3 == IF quote.Volume > 1000000 THEN s2 + 5 ELSE s2
    IN  Max(0, Min(100, s3))

\* A get_recommendation whose HOLD threshold is strict (score > 40).
get_recommendation_strict(score, sentiment) ==
    IF score >= 70 /\ sentiment = "BULLISH" THEN "STRONG BUY"
    ELSE IF score >= 60 THEN "BUY"
    ELSE IF score > 40 THEN "HOLD"
    ELSE "AVOID"

get_recommendation(score, sentiment) ==
    IF score >= 70 /\ sentiment = "BULLISH" THEN "STRONG BUY"
    ELSE IF score >= 60 THEN "BUY"
    ELSE IF score >= 40 THEN "HOLD"
    ELSE "AVOID"

(***************************************************************************)
(* MarketScanner.get_stock_data                                            *)
(*                                                                         *)
(* A provider response is [raises, info, hist]: raises says that yfinance  *)
(* (or any expression inside the try block) throws; info is the mapping    *)
(* stock.info, a function from the keys it holds to numbers; hist is the   *)
(* rows of stock.history(period='2d'), oldest first, each [Close, Volume]  *)
(* with Close > 0.                                                         *)
(***************************************************************************)
\* n / d rounded to the nearest integer, ties to even (Python's round), d > 0.
RoundDiv(n, d) ==
    LET q == n \div d
        r == n % d
    IN  IF 2 * r < d THEN q
        ELSE IF 2 * r > d THEN q + 1
        ELSE IF q % 2 = 0 THEN q ELSE q + 1

price_keys == <<"currentPrice", "regularMarketPrice", "previousClose">>

\* for key in price_keys: if key in info and info[key]: price = info[key]; break
RECURSIVE FirstPrice(_, _)
FirstPrice(info, k) ==
    IF k > Len(price_keys) THEN 0
    ELSE IF price_keys[k] \in DOMAIN info /\ info[price_keys[k]] # 0
         THEN info[price_keys[k]]
         ELSE FirstPrice(info, k + 1)

get_stock_data(ticker, src) ==
    IF src.raises THEN None
    ELSE LET info == src.info
             hist == src.hist
             price == FirstPrice(info, 1)
             n == Len(hist)
         IN  IF price = 0 THEN None
             ELSE [Ticker |-> ticker,
                   Price |-> RoundDiv(price, 10),
                   Change |-> IF n >= 2
                              THEN RoundDiv((hist[n].Close - hist[n - 1].Close) * 10000,
                                            hist[n - 1].Close)
                              ELSE 0,
                   Volume |-> IF n >= 2 THEN hist[n].Volume
                              ELSE IF "volume" \in DOMAIN info THEN info["volume"]
                              ELSE 0]

(***************************************************************************)
(* MarketScanner.get_stock_news                                            *)
(*                                                                         *)
(* A feed is [unreachable, entries]: unreachable says that                 *)
(* feedparser.parse throws; an entry is a function from the attributes it  *)
(* carries (among title, summary, link) to their values.  Reading          *)
(* entry.title or entry.link of an entry that lacks it throws.             *)
(***************************************************************************)
Malformed(entry) == "title" \notin DOMAIN entry \/ "link" \notin DOMAIN entry

NewsItem(entry) ==
    [title |-> entry["title"],
     summary |-> Prefix(IF "summary" \in DOMAIN entry THEN entry["summary"] ELSE <<>>,
                        SummaryMax),
     link |-> entry["link"],
     source |-> "Yahoo Finance"]

\* The for loop over feed.entries[:3]; it ends at the first entry that throws,
\* with news_items holding what was appended before it.
RECURSIVE NewsLoop(_, _, _)
NewsLoop(entries, k, news_items) ==
    IF k > Len(entries) THEN [failed |-> FALSE, items |-> news_items]
    ELSE IF Malformed(entries[k]) THEN [failed |-> TRUE, items |-> news_items]
    ELSE NewsLoop(entries, k + 1, Append(news_items, NewsItem(entries[k])))

\* The body of the try block: whether it threw, and news_items afterwards.
NewsTry(feed) ==
    IF feed.unreachable THEN [failed |-> TRUE, items |-> <<>>]
    ELSE NewsLoop(Prefix(feed.entries, NewsCap), 1, <<>>)

\* A get_stock_news without the try/except: the exception reaches the caller.
get_stock_news_noexcept(ticker, feed) ==
    [raised |-> NewsTry(feed).failed, items |-> Prefix(NewsTry(feed).items, NewsCap)]

\* The outcome of the call: `except: pass` swallows every exception, so the
\* call always returns news_items[:3].
get_stock_news(ticker, feed) ==
    [raised |-> FALSE, items |-> Prefix(NewsTry(feed).items, NewsCap)]

(***************************************************************************)
(* results.sort(key=lambda x: x['Score'], reverse=True)                    *)
(* list.sort is stable, and with reverse=True records of equal key keep    *)
(* their original relative order.                                          *)
(***************************************************************************)
\* A sort that is not stable: r goes in front of the records of equal Score.
InsertDescUnstable(sorted, r) ==
    LET n == Cardinality({k \in 1..Len(sorted) : sorted[k].Score > r.Score})
    IN  SubSeq(sorted, 1, n) \o <<r>> \o SubSeq(sorted, n + 1, Len(sorted))

\* Insert r behind every record whose Score is >= r.Score.
InsertDesc(sorted, r) ==
    LET n == Cardinality({k \in 1..Len(sorted) : sorted[k].Score >= r.Score})
    IN  SubSeq(sorted, 1, n) \o <<r>> \o SubSeq(sorted, n + 1, Len(sorted))

RECURSIVE SortFrom(_, _, _)
SortFrom(list, k, sorted) ==
    IF k > Len(list) THEN sorted
    ELSE SortFrom(list, k + 1, InsertDesc(sorted, list[k]))

SortByScoreDesc(list) == SortFrom(list, 1, <<>>)

(***************************************************************************)
(* Inputs.                                                                 *)
(***************************************************************************)
\* MarketScanner.__init__: the first NumTickers symbols of focus_tickers.
Universe == <<"TSLA", "NVDA", "AMD", "META", "AAPL", "MSFT", "GOOGL", "AMZN">>
focus_tickers == SubSeq(Universe, 1, NumTickers)
TickerSet == {focus_tickers[k] : k \in 1..Len(focus_tickers)}

Labels == {"BULLISH", "BEARISH", "NEUTRAL"}

Row(close, volume) == [Close |-> close, Volume |-> volume]
Source(raises, info, hist) == [raises |-> raises, info |-> info, hist |-> hist]

\* Functions from a subset of the keys to the values.
PartialFns(keys, vals) == UNION {[d -> vals] : d \in SUBSET keys}

\* Values of a price field, in thousandths of a dollar: zero, negative,
\* positive but below half a cent, and an ordinary price.
PriceVals == {0, -500, 4, 2500}
Closes == {9900, 10000, 10100, 10200, 10300, 10500, 10600}
Volumes == {500, 1000000, 2000000}

Infos ==
    {p @@ v : p \in PartialFns({"currentPrice", "regularMarketPrice", "previousClose"},
                               PriceVals),
              v \in PartialFns({"volume"}, {500})}

Hists ==
    {<<>>, <<Row(10000, 2000000)>>,
     <<Row(20000, 500), Row(10000, 500), Row(10600, 2000000)>>}
    \cup {<<Row(10000, 500), Row(c, v)>> : c \in Closes, v \in Volumes}

\* Provider responses handed to get_stock_data when it is called directly.
QuoteSources ==
    {Source(TRUE, <<>>, <<>>)} \cup {Source(FALSE, info, hist) : info \in Infos, hist \in Hists}

\* Provider responses during a scan.
ScanSources ==
    {Source(TRUE, <<>>, <<>>),
     Source(FALSE, [volume |-> 500], <<>>),
     Source(FALSE, [currentPrice |-> 2500],
            <<Row(10000, 500), Row(10600, 2000000)>>),
     Source(FALSE, [currentPrice |-> 0, regularMarketPrice |-> 2500, volume |-> 500],
            <<Row(10000, 500)>>),
     Source(FALSE, [previousClose |-> 4],
            <<Row(10000, 500), Row(10300, 1000000)>>)}

Long(n) == [k \in 1..n |-> "x"]
W_shares == <<"s","h","a","r","e","s">>
W_group == <<"g","r","o","u","p">>
W_Upgrade == <<"U","p","g","r","a","d","e">>

Entry(title, summary) == [title |-> title, summary |-> summary, link |-> "link"]
E_gain == Entry(W_gain, W_shares)
E_loss == [title |-> W_loss, link |-> "link"]
E_long == Entry(W_rise, Long(SummaryMax + 10))
E_notitle == [summary |-> W_gain, link |-> "link"]
E_nolink == [title |-> W_gain, summary |-> W_gain]

Feed(unreachable, entries) == [unreachable |-> unreachable, entries |-> entries]

SeqsUpTo(S, n) == UNION {[1..k -> S] : k \in 0..n}

\* Feeds handed to get_stock_news when it is called directly.
Feeds ==
    {Feed(TRUE, <<>>)}
    \cup {Feed(FALSE, es) : es \in SeqsUpTo({E_gain, E_loss, E_long, E_notitle, E_nolink},
                                           MaxEntries)}

\* Feeds during a scan: unreachable (no item), one item, one item followed by
\* an entry without title, four entries.
ScanFeeds ==
    {Feed(TRUE, <<>>),
     Feed(FALSE, <<Entry(W_Upgrade, W_profit)>>),
     Feed(FALSE, <<E_gain, E_notitle>>),
     Feed(FALSE, <<E_loss, Entry(W_downgrade, <<>>), E_long, E_gain>>)}

\* News lists handed to analyze_sentiment when it is called directly.
CallTitles ==
    {positive_words[k] : k \in 1..Len(positive_words)}
    \cup {negative_words[k] : k \in 1..Len(negative_words)}
    \cup {W_shares, W_group, W_Upgrade}
CallSummaries == {<<>>, W_profit}
CallItems ==
    {[title |-> t, summary |-> sm, link |-> "link", source |-> "Yahoo Finance"] :
        t \in CallTitles, sm \in CallSummaries}
NewsLists == SeqsUpTo(CallItems, MaxItems)

\* Arguments of calculate_score and get_recommendation when called directly.
ScoreArgs ==
    {[quote |-> [Change |-> c, Volume |-> v], sentiment_data |-> [sentiment |-> l]] :
        c \in {-100, 0, 1, 200, 201, 500, 501, 600},
        v \in {0, 500, 1000000, 1000001, 2000000},
        l \in Labels}
RecArgs == {[score |-> sc, sentiment |-> l] : sc \in 0..100, l \in Labels}

(***************************************************************************)
(* The state machine.  A behaviour is either one run of the script main()  *)
(* in a fresh session (pc from "idle"), or one direct call of a method of  *)
(* MarketScanner (pc from "call").                                         *)
(***************************************************************************)
InitLocals ==
    /\ scan_mode = "fast"
    /\ min_price = 100
    /\ min_volume = 100000
    /\ tickers = <<>>
    /\ i = 0
    /\ stock_data = None
    /\ results = <<>>
    /\ session_results = <<>>
    /\ fetch_count = [t \in TickerSet |-> 0]
    /\ enriched = {}
    /\ passed = {}
    /\ news_failed = {}

InitApp ==
    /\ pc = "idle"
    /\ InitLocals
    /\ fn = "main"
    /\ arg = <<>>
    /\ ret = <<>>

InitCall ==
    /\ pc = "call"
    /\ InitLocals
    /\ ret = <<>>
    /\ \/ fn = "get_stock_data" /\ arg \in QuoteSources
       \/ fn = "get_stock_news" /\ arg \in Feeds
       \/ fn = "analyze_sentiment" /\ arg \in NewsLists
       \/ fn = "calculate_score" /\ arg \in ScoreArgs
       \/ fn = "get_recommendation" /\ arg \in RecArgs

Init == InitApp \/ InitCall

scanVars == <<scan_mode, min_price, min_volume, tickers, i, stock_data, results,
              session_results, fetch_count, enriched, passed, news_failed>>
callVars == <<fn, arg, ret>>

\* The button was not pressed: scan_triggered is False, the welcome screen shows.
NoScan ==
    /\ pc = "idle"
    /\ pc' = "done"
    /\ UNCHANGED <<scanVars, callVars>>

\* The button was pressed: the sidebar inputs are read and the ticker list chosen.
StartScan ==
    /\ pc = "idle"
    /\ \E mode \in {"fast", "full"}, mp \in {0, 100}, mv \in {0, 100000} :
        /\ scan_mode' = mode
        /\ min_price' = mp
        /\ min_volume' = mv
        /\ tickers' = IF mode = "fast" THEN Prefix(focus_tickers, FastCount)
                      ELSE focus_tickers
    /\ results' = <<>>
    /\ i' = 1
    /\ pc' = "fetch"
    /\ UNCHANGED <<stock_data, session_results, fetch_count, enriched, passed,
                   news_failed, callVars>>

\* stock_data = scanner.get_stock_data(ticker)
FetchQuote ==
    /\ pc = "fetch"
    /\ i <= Len(tickers)
    /\ \E src \in ScanSources : stock_data' = get_stock_data(tickers[i], src)
    /\ fetch_count' = [fetch_count EXCEPT ![tickers[i]] = @ + 1]
    /\ pc' = "filter"
    /\ UNCHANGED <<scan_mode, min_price, min_volume, tickers, i, results,
                   session_results, enriched, passed, news_failed, callVars>>

\* if stock_data and stock_data['Price'] >= min_price and stock_data['Volume'] >= min_volume
Passes(sd) == sd # None /\ sd.Price >= min_price /\ sd.Volume >= min_volume

\* A loop that stops one ticker early.
NextPc_offbyone == IF i + 1 >= Len(tickers) THEN "sort" ELSE "fetch"

\* The for loop goes on to the next ticker, or ends after the last one.
NextPc == IF i + 1 > Len(tickers) THEN "sort" ELSE "fetch"

\* The condition is false: nothing but the progress bar is updated.
SkipTicker ==
    /\ pc = "filter"
    /\ ~Passes(stock_data)
    /\ i' = i + 1
    /\ pc' = NextPc
    /\ UNCHANGED <<scan_mode, min_price, min_volume, tickers, stock_data, results,
                   session_results, fetch_count, enriched, passed, news_failed,
                   callVars>>

\* The condition is true: news, sentiment, score, recommendation, append.
\* (The record's other fields, Company .. Beta and Latest_News, are display
\* data that no condition reads; they are left out.)
\* An exception out of get_stock_news would leave main() (nothing catches it).
Enrich ==
    /\ pc = "filter"
    /\ Passes(stock_data)
    /\ \E feed \in ScanFeeds :
        LET ticker == tickers[i]
            out == get_stock_news(ticker, feed)
            news_items == out.items
            sentiment_data == analyze_sentiment(news_items)
            score == calculate_score(stock_data, sentiment_data)
            recommendation == get_recommendation(score, sentiment_data.sentiment)
            result == [Ticker |-> stock_data.Ticker,
                       Price |-> stock_data.Price,
                       Change |-> stock_data.Change,
                       Volume |-> stock_data.Volume,
                       News_Count |-> Len(news_items),
                       Sentiment |-> sentiment_data.sentiment,
                       Confidence |-> sentiment_data.confidence,
                       Score |-> score,
                       Recommendation |-> recommendation]
        IN  /\ passed' = passed \cup {ticker}
            /\ news_failed' = IF NewsTry(feed).failed THEN news_failed \cup {ticker}
                              ELSE news_failed
            /\ IF out.raised
               THEN /\ pc' = "aborted"
                    /\ UNCHANGED <<results, i, enriched>>
               ELSE /\ results' = Append(results, result)
                    /\ enriched' = enriched \cup {ticker}
                    /\ i' = i + 1
                    /\ pc' = NextPc
    /\ UNCHANGED <<scan_mode, min_price, min_volume, tickers, stock_data,
                   session_results, fetch_count, callVars>>

\* After the loop: if results: results.sort(...); st.session_state.results = results
Finish ==
    /\ pc = "sort"
    /\ IF results # <<>>
       THEN /\ results' = SortByScoreDesc(results)
            /\ session_results' = SortByScoreDesc(results)
       ELSE UNCHANGED <<results, session_results>>
    /\ pc' = "done"
    /\ UNCHANGED <<scan_mode, min_price, min_volume, tickers, i, stock_data,
                   fetch_count, enriched, passed, news_failed, callVars>>

Return(value) ==
    /\ ret' = value
    /\ pc' = "returned"
    /\ UNCHANGED <<scanVars, fn, arg>>

Call_get_stock_data ==
    pc = "call" /\ fn = "get_stock_data" /\ Return(get_stock_data("TSLA", arg))

Call_get_stock_news ==
    pc = "call" /\ fn = "get_stock_news" /\ Return(get_stock_news("TSLA", arg))

Call_analyze_sentiment ==
    pc = "call" /\ fn = "analyze_sentiment" /\ Return(analyze_sentiment(arg))

Call_calculate_score ==
    pc = "call" /\ fn = "calculate_score"
    /\ Return(calculate_score(arg.quote, arg.sentiment_data))

Call_get_recommendation ==
    pc = "call" /\ fn = "get_recommendation"
    /\ Return(get_recommendation(arg.score, arg.sentiment))

Next ==
    \/ NoScan
    \/ StartScan
    \/ FetchQuote
    \/ SkipTicker
    \/ Enrich
    \/ Finish
    \/ Call_get_stock_data
    \/ Call_get_stock_news
    \/ Call_analyze_sentiment
    \/ Call_calculate_score
    \/ Call_get_recommendation

Spec == Init /\ [][Next]_vars

\* One run of main() alone.  main() is straight-line code around a bounded
\* loop on one thread: a run that has a next step takes it.
NextApp ==
    \/ NoScan
    \/ StartScan
    \/ FetchQuote
    \/ SkipTicker
    \/ Enrich
    \/ Finish

ScanSpec == InitApp /\ [][NextApp]_vars /\ WF_vars(NextApp)

(***************************************************************************)
(* Vocabulary of the properties.                                           *)
(***************************************************************************)
Scanning == fn = "main"
Returned(name) == pc = "returned" /\ fn = name

RecordSet(list) == {list[k] : k \in 1..Len(list)}
TickersOf(list) == {list[k].Ticker : k \in 1..Len(list)}
Selected == {tickers[k] : k \in 1..Len(tickers)}
Position(t) == CHOOSE k \in 1..Len(focus_tickers) : focus_tickers[k] = t

SortedDesc(list) ==
    \A a, b \in 1..Len(list) : a < b => list[a].Score >= list[b].Score

TiesInUniverseOrder(list) ==
    \A a, b \in 1..Len(list) :
        (a < b /\ list[a].Score = list[b].Score)
            => Position(list[a].Ticker) < Position(list[b].Ticker)

\* The score the specification's rules give, each adjustment on its own.
ChangeBonus(change) ==
    CASE change > 500 -> 20
      [] change > 200 /\ change <= 500 -> 10
      [] change > 0 /\ change <= 200 -> 5
      [] change <= 0 -> 0
SentimentBonus(label) ==
    CASE label = "BULLISH" -> 15 [] label = "BEARISH" -> -10 [] label = "NEUTRAL" -> 0
VolumeBonus(volume) == IF volume > 1000000 THEN 5 ELSE 0
RuleSum(change, volume, label) ==
    50 + ChangeBonus(change) + SentimentBonus(label) + VolumeBonus(volume)
Clamp(x) == IF x < 0 THEN 0 ELSE IF x > 100 THEN 100 ELSE x

TierOk(score, label, tier) ==
    /\ tier = "STRONG BUY" <=> (score >= 70 /\ label = "BULLISH")
    /\ tier = "BUY" <=> (~(score >= 70 /\ label = "BULLISH") /\ score >= 60)
    /\ tier = "HOLD" <=> (score < 60 /\ score >= 40)
    /\ tier = "AVOID" <=> score < 40

(***************************************************************************)
(* C1.  Claim: when exactly one ticker's news aggregation raises and every *)
(* ticker resolves a quote and passes the filters, the finished scan's     *)
(* result holds exactly the other tickers, not the failing one, sorted by  *)
(* score.                                                                  *)
(***************************************************************************)
C1_FailureCase ==
    /\ Scanning /\ pc = "done"
    /\ Cardinality(news_failed) = 1
    /\ passed = Selected

C1_FailingTickerRemoved ==
    C1_FailureCase => (TickersOf(results) = Selected \ news_failed /\ SortedDesc(results))

\* C1 as amended: a failure inside news aggregation never aborts the scan
\* and never removes a ticker: the finished scan's result holds every ticker
\* that resolved a quote and passed the filters, the failing ones included,
\* each once, sorted by score.
C1_FailingTickerKept ==
    /\ pc # "aborted"
    /\ (Scanning /\ pc = "done")
        => /\ TickersOf(results) = passed
           /\ news_failed \subseteq TickersOf(results)
           /\ Len(results) = Cardinality(passed)
           /\ SortedDesc(results)

C1_Witness == C1_FailureCase /\ Len(tickers) >= 3 /\ Len(results) = Len(tickers)

(***************************************************************************)
(* C2.  Claim: get_stock_data returns None or a quote whose Price is       *)
(* strictly positive, whatever the three price fields hold.                *)
(***************************************************************************)
C2_PricePositive ==
    /\ Returned("get_stock_data") => (ret = None \/ ret.Price > 0)
    /\ (Scanning /\ pc = "filter") => (stock_data = None \/ stock_data.Price > 0)

(***************************************************************************)
(* C3.  After a scan the result list is in descending score order, and     *)
(* records of equal score are in the order of their tickers in the         *)
(* universe; the list stored in the session is that list.                  *)
(***************************************************************************)
C3_SortedStable ==
    (Scanning /\ pc = "done")
        => /\ SortedDesc(results)
           /\ TiesInUniverseOrder(results)
           /\ results # <<>> => session_results = results

C3_Witness ==
    /\ Scanning /\ pc = "done" /\ Len(results) >= 3
    /\ results[1].Score = results[2].Score
    /\ results[2].Score > results[3].Score
    /\ Position(results[3].Ticker) < Position(results[1].Ticker)

(***************************************************************************)
(* C4.  The score calculate_score returns, and the Score of every record   *)
(* of a scan, lies in 0..100.                                              *)
(***************************************************************************)
C4_ScoreInRange ==
    /\ Returned("calculate_score") => ret \in 0..100
    /\ \A r \in RecordSet(results) : r.Score \in 0..100

C4_Witness ==
    /\ Scanning /\ pc = "done"
    /\ \E r \in RecordSet(results) : r.Score = 90
    /\ \E r \in RecordSet(results) : r.Score = 40

(***************************************************************************)
(* C5.  analyze_sentiment on no news returns NEUTRAL, 0, 0; on some news   *)
(* the confidence is min(90, 50 + 15*|score|), within 50..90; the label    *)
(* is BULLISH iff score > 1 and BEARISH iff score < -1; in a scan record   *)
(* the confidence is non-zero only if News_Count >= 1.                     *)
(***************************************************************************)
C5_Sentiment ==
    /\ Returned("analyze_sentiment") =>
        /\ arg = <<>> => ret = [sentiment |-> "NEUTRAL", score |-> 0, confidence |-> 0]
        /\ arg # <<>> =>
            /\ ret.confidence = Min(90, 50 + 15 * Abs(ret.score))
            /\ ret.confidence \in 50..90
        /\ ret.sentiment = "BULLISH" <=> ret.score > 1
        /\ ret.sentiment = "BEARISH" <=> ret.score < -1
        /\ ret.sentiment = "NEUTRAL" <=> ret.score \in -1..1
    /\ \A r \in RecordSet(results) :
        /\ r.Confidence # 0 => r.News_Count >= 1
        /\ r.News_Count >= 1 => r.Confidence \in 50..90

C5_Witness ==
    /\ Scanning /\ pc = "done"
    /\ \E r \in RecordSet(results) : r.News_Count = 0 /\ r.Confidence = 0
    /\ \E r \in RecordSet(results) : r.News_Count >= 1 /\ r.Confidence = 90
    /\ \E r \in RecordSet(results) : r.News_Count >= 1 /\ r.Confidence = 65

(***************************************************************************)
(* C6.  Claim: a news set whose text holds exactly two positive-lexicon    *)
(* terms and no negative one gives score 2, BULLISH, confidence 80,        *)
(* however the terms are spread over the items and whichever terms they    *)
(* are.  A term of an item is its title or its summary, lower-cased, when  *)
(* that is a word of the lexicon.                                          *)
(***************************************************************************)
Terms(news_items, words) ==
    {<<k, w>> \in (1..Len(news_items)) \X {words[j] : j \in 1..Len(words)} :
        lower(news_items[k].title) = w \/ lower(news_items[k].summary) = w}

C6_TwoPositiveTerms ==
    (/\ Returned("analyze_sentiment")
     /\ Cardinality(Terms(arg, positive_words)) = 2
     /\ Terms(arg, negative_words) = {})
        => (ret.score = 2 /\ ret.sentiment = "BULLISH" /\ ret.confidence = 80)

(***************************************************************************)
(* C7.  calculate_score returns the clamped sum of 50 and the change,      *)
(* sentiment and volume adjustments; get_recommendation yields the tier    *)
(* the top-down thresholds give; 6% / 2,000,000 / BULLISH gives 90 and     *)
(* strong buy, 0% / 500 / BEARISH gives 40 and hold.                       *)
(***************************************************************************)
C7_ScoreAndTier ==
    /\ Returned("calculate_score") =>
        /\ ret = Clamp(RuleSum(arg.quote.Change, arg.quote.Volume,
                               arg.sentiment_data.sentiment))
        /\ (arg.quote.Change = 600 /\ arg.quote.Volume = 2000000
            /\ arg.sentiment_data.sentiment = "BULLISH") => ret = 90
        /\ (arg.quote.Change = 0 /\ arg.quote.Volume = 500
            /\ arg.sentiment_data.sentiment = "BEARISH") => ret = 40
    /\ Returned("get_recommendation") =>
        /\ TierOk(arg.score, arg.sentiment, ret)
        /\ (arg.score = 90 /\ arg.sentiment = "BULLISH") => ret = "STRONG BUY"
        /\ (arg.score = 40 /\ arg.sentiment = "BEARISH") => ret = "HOLD"
    /\ \A r \in RecordSet(results) :
        /\ r.Score = Clamp(RuleSum(r.Change, r.Volume, r.Sentiment))
        /\ TierOk(r.Score, r.Sentiment, r.Recommendation)

C7_Witness ==
    /\ Scanning /\ pc = "done"
    /\ \E r \in RecordSet(results) :
        /\ r.Change = 600 /\ r.Volume = 2000000 /\ r.Sentiment = "BULLISH"
        /\ r.Score = 90 /\ r.Recommendation = "STRONG BUY"
    /\ \E r \in RecordSet(results) :
        /\ r.Change = 0 /\ r.Volume = 500 /\ r.Sentiment = "BEARISH"
        /\ r.Score = 40 /\ r.Recommendation = "HOLD"

(***************************************************************************)
(* C8.  Claim: get_stock_news never raises; a feed that is unreachable or  *)
(* holds a malformed entry yields the empty list; a well-formed feed       *)
(* yields its first (at most 3) entries in feed order, summaries cut to    *)
(* 150 characters.                                                         *)
(***************************************************************************)
FeedMalformed(feed) ==
    feed.unreachable \/ \E k \in 1..Len(feed.entries) : Malformed(feed.entries[k])

C8_MalformedFeedEmpty ==
    Returned("get_stock_news") =>
        /\ ~ret.raised
        /\ FeedMalformed(arg) => ret.items = <<>>
        /\ ~FeedMalformed(arg) =>
            /\ Len(ret.items) = Min(3, Len(arg.entries))
            /\ \A k \in 1..Len(ret.items) :
                /\ ret.items[k].title = arg.entries[k]["title"]
                /\ Len(ret.items[k].summary) <= 150

(***************************************************************************)
(* C9.  Claim: the scan goes FETCHING, ENRICHING, FILTERING, SORTING,      *)
(* DONE: every selected ticker's quote is retrieved before any ticker's    *)
(* enrichment begins.                                                      *)
(***************************************************************************)
C9_FetchAllBeforeEnrich ==
    enriched # {} => \A t \in Selected : fetch_count[t] >= 1

\* C9 as amended: the scan handles the selected tickers one at a time in
\* list order; for each ticker the quote is retrieved, then the price/volume
\* condition is tested, then (only if it holds) the ticker is enriched, all
\* before the next ticker's quote is retrieved; sorting follows the last
\* ticker; no step is revisited; every scan reaches "done" having retrieved
\* each selected ticker's quote exactly once.
Before(k) == {tickers[j] : j \in 1..Min(k, Len(tickers))}

C9_Order ==
    Scanning =>
        /\ \A t \in TickerSet : fetch_count[t] = IF t \in Before(IF pc = "fetch" THEN i - 1 ELSE i)
                                                 THEN 1 ELSE 0
        /\ enriched = TickersOf(results)
        /\ enriched \subseteq passed
        /\ passed \subseteq Before(i - 1)
        /\ pc \in {"sort", "done"} /\ tickers # <<>> => i = Len(tickers) + 1
        /\ pc \in {"fetch", "filter"} => i \in 1..Len(tickers)

C9_Steps ==
    <<pc, pc'>> \in {<<"idle", "done">>, <<"idle", "fetch">>, <<"fetch", "filter">>,
                     <<"filter", "fetch">>, <<"filter", "sort">>, <<"sort", "done">>}

C9_TickerByTicker ==
    /\ []C9_Order
    /\ [][C9_Steps /\ (pc = "filter" => i' = i + 1)]_vars
    /\ (pc = "idle") ~> (pc = "done")

C9_Witness ==
    /\ Scanning /\ pc = "fetch" /\ i = Len(tickers) /\ i >= 3
    /\ enriched # {} /\ passed # Before(i - 1)

(***************************************************************************)
(* C10.  In every record of a scan the score lies in 40..90 and equals the *)
(* unclamped rule sum; the tier is never AVOID; a BULLISH record scores at *)
(* least 65; a STRONG BUY record is BULLISH.                               *)
(***************************************************************************)
C10_RecordRange ==
    /\ \A r \in RecordSet(results) :
        /\ r.Score \in 40..90
        /\ r.Score = RuleSum(r.Change, r.Volume, r.Sentiment)
        /\ r.Recommendation # "AVOID"
        /\ r.Sentiment = "BULLISH" => r.Score >= 65
        /\ r.Recommendation = "STRONG BUY" => r.Sentiment = "BULLISH"
    /\ Returned("calculate_score") =>
        /\ ret \in 40..90
        /\ get_recommendation(ret, arg.sentiment_data.sentiment) # "AVOID"

C10_Witness ==
    /\ Scanning /\ pc = "done"
    /\ \E r \in RecordSet(results) : r.Sentiment = "BULLISH" /\ r.Score = 65
    /\ \E r \in RecordSet(results) : r.Sentiment = "BEARISH" /\ r.Score = 40
    /\ \E r \in RecordSet(results) : r.Recommendation = "BUY" /\ r.Sentiment = "BULLISH"

====
